---- MODULE Spec2Model ----
(***************************************************************************)
(* SegTree<M: Monoid> of src/src_rs/src/seg_tree.rs: a recursive           *)
(* Leaf/Node tree over a monoid with point update, point read, range fold  *)
(* and the two boundary searches max_end / min_start.                      *)
(*                                                                         *)
(* A tree is a record: [kind |-> "Leaf", val] or                           *)
(* [kind |-> "Node", val, len, left, right].  Every operation returns a    *)
(* record whose status is "ok" or the panic that ended the call.           *)
(* Indices are 0-based as in the source; TLA+ sequences are 1-based, so    *)
(* slice[i] of the source is slice[i + 1] here.                            *)
(***************************************************************************)
EXTENDS Integers, Sequences, FiniteSets, TLC

VARIABLES m, st, sq, pred, ret

vars == <<m, st, sq, pred, ret>>

(* ------------------------------ bounds -------------------------------- *)
\* longest sequence a tree is built from
MaxLen == 3
\* AddU64 items are drawn from 0..MaxItem (sums stay far below 2^64)
MaxItem == 1
\* a predicate over AddU64 is the set of sums in 0..MaxPredVal it accepts
MaxPredVal == 3
\* call depth the thread's stack can hold before it overflows
StackLimit == 6

(* --------------------------- panic outcomes ---------------------------- *)
Ok == "ok"
IndexOut == "index out"
InvalidRange == "invalid range"
Unreachable == "unreachable"
StackOverflow == "stack overflow"

(* ------------------------------ Monoid -------------------------------- *)
\* Two instances of the trait: the AddU64 of the source, and First, the
\* non-commutative monoid over {0, 1, 2} whose identity is 0 and whose op
\* keeps the leftmost non-identity operand.
Monoids == {"AddU64", "First"}

Items(M) == IF M = "AddU64" THEN 0 .. MaxItem ELSE {0, 1, 2}

id(M) == 0

op(M, a, b) == IF M = "AddU64" THEN a + b ELSE IF a = 0 THEN b ELSE a

\* the closures a caller may pass: each is the set of aggregates it accepts
Preds(M) == IF M = "AddU64" THEN SUBSET (0 .. MaxPredVal) ELSE SUBSET {0, 1, 2}

(* ------------------------------ SegTree ------------------------------- *)
Nil == [kind |-> "None"]

Leaf(v) == [kind |-> "Leaf", val |-> v]

Node(v, l, left, right) ==
    [kind |-> "Node", val |-> v, len |-> l, left |-> left, right |-> right]

len(t) == IF t.kind = "Leaf" THEN 1 ELSE t.len

val(t) == t.val

Max(a, b) == IF a >= b THEN a ELSE b

Min(a, b) == IF a <= b THEN a ELSE b

RECURSIVE from(_, _, _)

\* from_slice with the split point rounded up instead of down
from_slice_ceil_mid(M, slice, depth) ==
    IF depth > StackLimit THEN [status |-> StackOverflow, tree |-> Nil]
    ELSE IF Len(slice) = 1 THEN [status |-> Ok, tree |-> Leaf(slice[1])]
    ELSE LET mid == (Len(slice) + 1) \div 2
             left == from(M, SubSeq(slice, 1, mid), depth + 1)
             right == from(M, SubSeq(slice, mid + 1, Len(slice)), depth + 1)
         IN  IF left.status # Ok THEN [status |-> left.status, tree |-> Nil]
             ELSE IF right.status # Ok THEN [status |-> right.status, tree |-> Nil]
             ELSE [status |-> Ok,
                   tree |-> Node(op(M, val(left.tree), val(right.tree)),
                                 Len(slice), left.tree, right.tree)]

\* from_slice: depth counts the frames on the stack; the recursion on an
\* empty slice never reaches a leaf and ends when the stack is exhausted.
from_slice(M, slice, depth) ==
    IF depth > StackLimit THEN [status |-> StackOverflow, tree |-> Nil]
    ELSE IF Len(slice) = 1 THEN [status |-> Ok, tree |-> Leaf(slice[1])]
    ELSE LET mid == Len(slice) \div 2
             left == from(M, SubSeq(slice, 1, mid), depth + 1)
             right == from(M, SubSeq(slice, mid + 1, Len(slice)), depth + 1)
         IN  IF left.status # Ok THEN [status |-> left.status, tree |-> Nil]
             ELSE IF right.status # Ok THEN [status |-> right.status, tree |-> Nil]
             ELSE [status |-> Ok,
                   tree |-> Node(op(M, val(left.tree), val(right.tree)),
                                 Len(slice), left.tree, right.tree)]

from(M, slice, depth) == from_slice(M, slice, depth)

\* new building one element too many
new_one_more(M, n) == from(M, [k \in 1 .. n + 1 |-> id(M)], 0)

new(M, n) == from(M, [k \in 1 .. n |-> id(M)], 0)

RECURSIVE set(_, _, _, _)

\* set recursing into the right child without shifting the index
set_no_shift(M, t, i, v) ==
    IF ~(i < len(t)) THEN [status |-> IndexOut, tree |-> t]
    ELSE IF t.kind = "Leaf" THEN [status |-> Ok, tree |-> Leaf(v)]
    ELSE LET mid == t.len \div 2
             r == IF i < mid THEN set(M, t.left, i, v)
                             ELSE set(M, t.right, i, v)
             left == IF i < mid THEN r.tree ELSE t.left
             right == IF i < mid THEN t.right ELSE r.tree
         IN  IF r.status # Ok THEN [status |-> r.status, tree |-> t]
             ELSE [status |-> Ok,
                   tree |-> Node(op(M, val(left), val(right)), t.len, left, right)]

\* set leaving the aggregate of the nodes on the path as it was
set_stale_val(M, t, i, v) ==
    IF ~(i < len(t)) THEN [status |-> IndexOut, tree |-> t]
    ELSE IF t.kind = "Leaf" THEN [status |-> Ok, tree |-> Leaf(v)]
    ELSE LET mid == t.len \div 2
             r == IF i < mid THEN set(M, t.left, i, v)
                             ELSE set(M, t.right, i - mid, v)
             left == IF i < mid THEN r.tree ELSE t.left
             right == IF i < mid THEN t.right ELSE r.tree
         IN  IF r.status # Ok THEN [status |-> r.status, tree |-> t]
             ELSE [status |-> Ok, tree |-> Node(t.val, t.len, left, right)]

set(M, t, i, v) ==
    IF ~(i < len(t)) THEN [status |-> IndexOut, tree |-> t]
    ELSE IF t.kind = "Leaf" THEN [status |-> Ok, tree |-> Leaf(v)]
    ELSE LET mid == t.len \div 2
             r == IF i < mid THEN set(M, t.left, i, v)
                             ELSE set(M, t.right, i - mid, v)
             left == IF i < mid THEN r.tree ELSE t.left
             right == IF i < mid THEN t.right ELSE r.tree
         IN  IF r.status # Ok THEN [status |-> r.status, tree |-> t]
             ELSE [status |-> Ok,
                   tree |-> Node(op(M, val(left), val(right)), t.len, left, right)]

RECURSIVE get(_, _)

get(t, i) ==
    IF ~(i < len(t)) THEN [status |-> IndexOut, value |-> 0]
    ELSE IF t.kind = "Leaf" THEN [status |-> Ok, value |-> t.val]
    ELSE LET mid == t.len \div 2
         IN  IF i < mid THEN get(t.left, i) ELSE get(t.right, i - mid)

RECURSIVE fold(_, _, _, _)

\* fold combining the right partial result before the left one
fold_swapped(M, t, start, end) ==
    IF ~(start <= end) THEN [status |-> InvalidRange, value |-> 0]
    ELSE IF ~(end <= len(t)) THEN [status |-> IndexOut, value |-> 0]
    ELSE IF end - start = 0 THEN [status |-> Ok, value |-> id(M)]
    ELSE IF end - start = len(t) THEN [status |-> Ok, value |-> val(t)]
    ELSE IF t.kind = "Leaf" THEN [status |-> Unreachable, value |-> 0]
    ELSE LET mid == t.len \div 2
         IN  IF end <= mid THEN fold(M, t.left, start, end)
             ELSE IF mid <= start THEN fold(M, t.right, start - mid, end - mid)
             ELSE LET l == fold(M, t.left, start, mid)
                      r == fold(M, t.right, 0, end - mid)
                  IN  IF l.status # Ok THEN l
                      ELSE IF r.status # Ok THEN r
                      ELSE [status |-> Ok, value |-> op(M, r.value, l.value)]

\* fold recursing into the right child without shifting the end of the range
fold_no_shift(M, t, start, end) ==
    IF ~(start <= end) THEN [status |-> InvalidRange, value |-> 0]
    ELSE IF ~(end <= len(t)) THEN [status |-> IndexOut, value |-> 0]
    ELSE IF end - start = 0 THEN [status |-> Ok, value |-> id(M)]
    ELSE IF end - start = len(t) THEN [status |-> Ok, value |-> val(t)]
    ELSE IF t.kind = "Leaf" THEN [status |-> Unreachable, value |-> 0]
    ELSE LET mid == t.len \div 2
         IN  IF end <= mid THEN fold(M, t.left, start, end)
             ELSE IF mid <= start THEN fold(M, t.right, start - mid, end)
             ELSE LET l == fold(M, t.left, start, mid)
                      r == fold(M, t.right, 0, end)
                  IN  IF l.status # Ok THEN l
                      ELSE IF r.status # Ok THEN r
                      ELSE [status |-> Ok, value |-> op(M, l.value, r.value)]

\* fold with its two assertions in the other order
fold_asserts_swapped(M, t, start, end) ==
    IF ~(end <= len(t)) THEN [status |-> IndexOut, value |-> 0]
    ELSE IF ~(start <= end) THEN [status |-> InvalidRange, value |-> 0]
    ELSE IF end - start = 0 THEN [status |-> Ok, value |-> id(M)]
    ELSE IF end - start = len(t) THEN [status |-> Ok, value |-> val(t)]
    ELSE IF t.kind = "Leaf" THEN [status |-> Unreachable, value |-> 0]
    ELSE LET mid == t.len \div 2
         IN  IF end <= mid THEN fold(M, t.left, start, end)
             ELSE IF mid <= start THEN fold(M, t.right, start - mid, end - mid)
             ELSE LET l == fold(M, t.left, start, mid)
                      r == fold(M, t.right, 0, end - mid)
                  IN  IF l.status # Ok THEN l
                      ELSE IF r.status # Ok THEN r
                      ELSE [status |-> Ok, value |-> op(M, l.value, r.value)]

fold(M, t, start, end) ==
    IF ~(start <= end) THEN [status |-> InvalidRange, value |-> 0]
    ELSE IF ~(end <= len(t)) THEN [status |-> IndexOut, value |-> 0]
    ELSE IF end - start = 0 THEN [status |-> Ok, value |-> id(M)]
    ELSE IF end - start = len(t) THEN [status |-> Ok, value |-> val(t)]
    ELSE IF t.kind = "Leaf" THEN [status |-> Unreachable, value |-> 0]
    ELSE LET mid == t.len \div 2
         IN  IF end <= mid THEN fold(M, t.left, start, end)
             ELSE IF mid <= start THEN fold(M, t.right, start - mid, end - mid)
             ELSE LET l == fold(M, t.left, start, mid)
                      r == fold(M, t.right, 0, end - mid)
                  IN  IF l.status # Ok THEN l
                      ELSE IF r.status # Ok THEN r
                      ELSE [status |-> Ok, value |-> op(M, l.value, r.value)]

RECURSIVE max_end_inner(_, _, _, _, _)

\* max_end_inner accepting a subtree without committing it to the accumulator
max_end_inner_no_commit(M, t, start, p, acc) ==
    LET all_merged == op(M, acc, val(t))
    IN  IF start = 0 /\ all_merged \in p THEN [ret |-> len(t), acc |-> acc]
        ELSE IF start = len(t) THEN [ret |-> len(t), acc |-> acc]
        ELSE IF t.kind = "Leaf" THEN [ret |-> 0, acc |-> acc]
        ELSE LET mid == t.len \div 2
                 l == max_end_inner(M, t.left, start, p, acc)
             IN  IF start < mid /\ l.ret < mid THEN l
                 ELSE LET acc1 == IF start < mid THEN l.acc ELSE acc
                          r == max_end_inner(M, t.right, Max(start, mid) - mid, p, acc1)
                      IN  [ret |-> mid + r.ret, acc |-> r.acc]

\* max_end_inner without the return for a start at the end of the subtree
max_end_inner_no_exhausted(M, t, start, p, acc) ==
    LET all_merged == op(M, acc, val(t))
    IN  IF start = 0 /\ all_merged \in p THEN [ret |-> len(t), acc |-> all_merged]
        ELSE IF t.kind = "Leaf" THEN [ret |-> 0, acc |-> acc]
        ELSE LET mid == t.len \div 2
                 l == max_end_inner(M, t.left, start, p, acc)
             IN  IF start < mid /\ l.ret < mid THEN l
                 ELSE LET acc1 == IF start < mid THEN l.acc ELSE acc
                          r == max_end_inner(M, t.right, Max(start, mid) - mid, p, acc1)
                      IN  [ret |-> mid + r.ret, acc |-> r.acc]

\* returns the end found and the accumulator as the call leaves it
max_end_inner(M, t, start, p, acc) ==
    LET all_merged == op(M, acc, val(t))
    IN  IF start = 0 /\ all_merged \in p THEN [ret |-> len(t), acc |-> all_merged]
        ELSE IF start = len(t) THEN [ret |-> len(t), acc |-> acc]
        ELSE IF t.kind = "Leaf" THEN [ret |-> 0, acc |-> acc]
        ELSE LET mid == t.len \div 2
                 l == max_end_inner(M, t.left, start, p, acc)
             IN  IF start < mid /\ l.ret < mid THEN l
                 ELSE LET acc1 == IF start < mid THEN l.acc ELSE acc
                          r == max_end_inner(M, t.right, Max(start, mid) - mid, p, acc1)
                      IN  [ret |-> mid + r.ret, acc |-> r.acc]

max_end(M, t, start, p) ==
    IF ~(start <= len(t)) THEN [status |-> IndexOut, value |-> 0]
    ELSE [status |-> Ok, value |-> max_end_inner(M, t, start, p, id(M)).ret]

RECURSIVE min_start_inner(_, _, _, _, _)

min_start_inner(M, t, end, p, acc) ==
    LET merged == op(M, acc, val(t))
    IN  IF end = len(t) /\ merged \in p THEN [ret |-> 0, acc |-> merged]
        ELSE IF end = 0 THEN [ret |-> 0, acc |-> acc]
        ELSE IF t.kind = "Leaf" THEN [ret |-> 1, acc |-> acc]
        ELSE LET mid == t.len \div 2
                 r == min_start_inner(M, t.right, end - mid, p, acc)
             IN  IF mid <= end /\ r.ret > 0 THEN [ret |-> mid + r.ret, acc |-> r.acc]
                 ELSE LET acc1 == IF mid <= end THEN r.acc ELSE acc
                      IN  min_start_inner(M, t.left, Min(end, mid), p, acc1)

min_start(M, t, end, p) ==
    IF ~(end <= len(t)) THEN [status |-> IndexOut, value |-> 0]
    ELSE [status |-> Ok, value |-> min_start_inner(M, t, end, p, id(M)).ret]

(* ------------------------------ actions ------------------------------- *)
Call(c, a, b, status, value) ==
    [call |-> c, a |-> a, b |-> b, status |-> status, value |-> value]

NoCall == Call("none", 0, 0, Ok, 0)

\* arguments a caller may pass, one past the longest tree included
Args == 0 .. MaxLen + 1

Init ==
    /\ m \in Monoids
    /\ st = Nil
    /\ sq = <<>>
    /\ pred = {}
    /\ ret = NoCall

New ==
    /\ st = Nil /\ ret = NoCall
    /\ \E n \in 0 .. MaxLen :
          LET r == new(m, n)
          IN  /\ st' = r.tree
              /\ sq' = [k \in 1 .. n |-> id(m)]
              /\ ret' = Call("new", n, 0, r.status, 0)
    /\ UNCHANGED <<m, pred>>

FromSlice ==
    /\ st = Nil /\ ret = NoCall
    /\ \E n \in 0 .. MaxLen : \E slice \in [1 .. n -> Items(m)] :
          LET r == from_slice(m, slice, 0)
          IN  /\ st' = r.tree
              /\ sq' = slice
              /\ ret' = Call("from_slice", n, 0, r.status, 0)
    /\ UNCHANGED <<m, pred>>

Set ==
    /\ st # Nil
    /\ \E i \in Args : \E v \in Items(m) :
          LET r == set(m, st, i, v)
          IN  /\ st' = r.tree
              /\ sq' = IF r.status = Ok THEN [sq EXCEPT ![i + 1] = v] ELSE sq
              /\ ret' = Call("set", i, v, r.status, 0)
    /\ UNCHANGED <<m, pred>>

Get ==
    /\ st # Nil
    /\ \E i \in Args :
          LET r == get(st, i)
          IN  ret' = Call("get", i, 0, r.status, r.value)
    /\ UNCHANGED <<m, st, sq, pred>>

Fold ==
    /\ st # Nil
    /\ \E start \in Args : \E end \in Args :
          LET r == fold(m, st, start, end)
          IN  ret' = Call("fold", start, end, r.status, r.value)
    /\ UNCHANGED <<m, st, sq, pred>>

MaxEnd(p) ==
    /\ st # Nil
    /\ \E start \in Args :
          LET r == max_end(m, st, start, p)
          IN  ret' = Call("max_end", start, 0, r.status, r.value)
    /\ UNCHANGED <<m, st, sq, pred>>

MinStart(p) ==
    /\ st # Nil
    /\ \E end \in Args :
          LET r == min_start(m, st, end, p)
          IN  ret' = Call("min_start", end, 0, r.status, r.value)
    /\ UNCHANGED <<m, st, sq, pred>>

MaxEndAny == \E p \in Preds(m) : MaxEnd(p)

MinStartAny == \E p \in Preds(m) : MinStart(p)

Next == New \/ FromSlice \/ Set \/ Get \/ Fold \/ MaxEndAny \/ MinStartAny

\* the life of one tree: construction, then any calls
Spec == Init /\ [][Next]_vars

\* the searches as pure functions: the tree and the closure are the inputs
SearchInit ==
    /\ m \in Monoids
    /\ \E n \in 1 .. MaxLen : sq \in [1 .. n -> Items(m)]
    /\ st = from_slice(m, sq, 0).tree
    /\ pred \in Preds(m)
    /\ ret = NoCall

MaxEndPred == MaxEnd(pred)

MinStartPred == MinStart(pred)

SearchNext == MaxEndPred \/ MinStartPred

SpecSearch == SearchInit /\ [][SearchNext]_vars


(* --------------------- reference computations ------------------------- *)
RECURSIVE Reduce(_, _, _, _)

\* the left-to-right reduction op(s[i], ..., s[j-1]) started from the
\* identity, positions counted from 0
Reduce(M, s, i, j) ==
    IF j <= i THEN id(M) ELSE op(M, Reduce(M, s, i, j - 1), s[j])

RECURSIVE ScanRight(_, _, _, _, _)

\* extend end one position at a time while the predicate still holds
ScanRight(M, s, p, right, acc) ==
    IF right < Len(s) /\ op(M, acc, s[right + 1]) \in p
    THEN ScanRight(M, s, p, right + 1, op(M, acc, s[right + 1]))
    ELSE right

RECURSIVE ScanLeft(_, _, _, _, _)

\* extend start one position at a time to the left while the predicate holds
ScanLeft(M, s, p, left, acc) ==
    IF left > 0 /\ op(M, s[left], acc) \in p
    THEN ScanLeft(M, s, p, left - 1, op(M, s[left], acc))
    ELSE left

RECURSIVE Leaves(_)

\* the leaf values of a tree in index order
Leaves(t) == IF t.kind = "Leaf" THEN <<t.val>> ELSE Leaves(t.left) \o Leaves(t.right)

RECURSIVE WellAggregated(_, _)

WellAggregated(M, t) ==
    \/ t.kind = "Leaf"
    \/ /\ t.kind = "Node"
       /\ t.val = op(M, val(t.left), val(t.right))
       /\ t.val = Reduce(M, Leaves(t), 0, Len(Leaves(t)))
       /\ WellAggregated(M, t.left)
       /\ WellAggregated(M, t.right)

\* once pred is false on fold(start, e) it is false for every larger e
MonotoneFrom(start) ==
    \A e1 \in start .. Len(sq) : \A e2 \in e1 .. Len(sq) :
        Reduce(m, sq, start, e1) \notin pred => Reduce(m, sq, start, e2) \notin pred

\* once pred is false on fold(s, end) it is false for every smaller s
MonotoneTo(end) ==
    \A s2 \in 0 .. end : \A s1 \in 0 .. s2 :
        Reduce(m, sq, s2, end) \notin pred => Reduce(m, sq, s1, end) \notin pred

LargestEnd(start) ==
    LET good == {e \in start .. Len(sq) : Reduce(m, sq, start, e) \in pred}
    IN  CHOOSE e \in good : \A x \in good : x <= e

SmallestStart(end) ==
    LET good == {s \in 0 .. end : Reduce(m, sq, s, end) \in pred}
    IN  CHOOSE s \in good : \A x \in good : s <= x


(* ------------------------------ claims -------------------------------- *)
Length == Len(sq)

\* C1: a fold over a valid range 0 <= i <= j <= n returns the left-to-right
\* reduction op(S[i], ..., S[j-1]) in index order, commutative monoid or
\* not, and the identity when i = j.
FoldIsReduction ==
    (ret.call = "fold" /\ ret.a <= ret.b /\ ret.b <= Length) =>
        /\ ret.status = Ok
        /\ ret.value = Reduce(m, sq, ret.a, ret.b)
        /\ (ret.a = ret.b => ret.value = id(m))

\* a fold over a proper sub-range of a non-commutative tree whose first and
\* last items differ and are not the identity
FoldOrderSeen ==
    /\ ret.call = "fold" /\ ret.status = Ok /\ m = "First"
    /\ ret.b - ret.a >= 2 /\ ret.b - ret.a < Length
    /\ sq[ret.a + 1] # 0 /\ sq[ret.b] # 0 /\ sq[ret.a + 1] # sq[ret.b]

\* C2: for a predicate true on the identity and monotone from start,
\* max_end(start, pred) with start <= n returns the largest end in
\* [start, n] with pred(fold(start, end)), which is what the linear scan
\* from start finds.
MaxEndIsLargest ==
    (ret.call = "max_end" /\ ret.a <= Length /\ id(m) \in pred /\ MonotoneFrom(ret.a)) =>
        /\ ret.status = Ok
        /\ ret.value = LargestEnd(ret.a)
        /\ ret.value = ScanRight(m, sq, pred, ret.a, id(m))

\* max_end stopped strictly inside the tree, from a start that is not 0
MaxEndStopsInside ==
    /\ ret.call = "max_end" /\ id(m) \in pred /\ MonotoneFrom(ret.a)
    /\ 0 < ret.a /\ ret.a < ret.value /\ ret.value < Length

\* C3: for a predicate true on the identity and monotone towards the left
\* of end, min_start(end, pred) with end <= n returns the smallest start in
\* [0, end] with pred(fold(start, end)), fold being the left-to-right
\* reduction, commutative monoid or not.
MinStartIsSmallest ==
    (ret.call = "min_start" /\ ret.a <= Length /\ id(m) \in pred /\ MonotoneTo(ret.a)) =>
        /\ ret.status = Ok
        /\ ret.value = SmallestStart(ret.a)
        /\ ret.value = ScanLeft(m, sq, pred, ret.a, id(m))

\* C4: after construction and any valid set calls (each of which returns)
\* the tree reads and folds like the array that received the same
\* assignments: get(i) = A[i] for every i and fold(i, j) is the reduction
\* of A[i..j] for every i <= j <= n.
SetRefinesArray ==
    st # Nil =>
        /\ (ret.call = "set" /\ ret.a < Length) =>
              ret.status = Ok /\ sq[ret.a + 1] = ret.b
        /\ len(st) = Length
        /\ \A i \in 0 .. Length - 1 : get(st, i) = [status |-> Ok, value |-> sq[i + 1]]
        /\ \A i \in 0 .. Length : \A j \in i .. Length :
              fold(m, st, i, j) = [status |-> Ok, value |-> Reduce(m, sq, i, j)]

\* a set of a non-identity value at a position other than the first
SetSeen ==
    /\ ret.call = "set" /\ ret.status = Ok
    /\ ret.a >= 1 /\ ret.b # id(m) /\ sq[ret.a + 1] = ret.b

\* C5: construction from a sequence S of length n >= 1 returns a tree with
\* exactly n leaves in which get(i) = S[i] for every i < n.
ConstructionReadsBack ==
    (ret.call = "from_slice" /\ ret.a >= 1) =>
        /\ ret.status = Ok
        /\ Len(Leaves(st)) = ret.a
        /\ len(st) = ret.a
        /\ \A i \in 0 .. ret.a - 1 : get(st, i) = [status |-> Ok, value |-> sq[i + 1]]

\* a tree just built from a sequence of odd length >= 3 whose items differ
ConstructionSeen ==
    /\ ret.call = "from_slice" /\ ret.status = Ok
    /\ ret.a >= 3 /\ ret.a % 2 = 1
    /\ sq[1] # sq[2] /\ sq[2] # sq[3]

AbortKinds ==
    st # Nil =>
        /\ (ret.call \in {"get", "set"} /\ ret.a >= len(st)) => ret.status = IndexOut
        /\ (ret.call = "fold" /\ ret.a <= ret.b /\ ret.b > len(st)) => ret.status = IndexOut
        /\ (ret.call = "fold" /\ ret.a > ret.b) => ret.status = InvalidRange
        /\ (ret.call \in {"max_end", "min_start"} /\ ret.a > len(st)) => ret.status = IndexOut

\* C6: a call whose arguments violate its precondition ends in the stated
\* panic (index out of range, or invalid range for a fold with
\* start > end), and a call that panics leaves the tree as it was.
AbortsBeforeMutation ==
    /\ []AbortKinds
    /\ [][ret'.status # Ok => st' = st]_vars

\* a set with an index past the end has panicked
SetAborted ==
    /\ ret.call = "set" /\ st # Nil /\ ret.a >= len(st) /\ ret.status = IndexOut

\* C7: new(n) with n >= 1 returns a tree of length n whose every position
\* reads as the identity; new(0) returns no tree.
NewIsIdentities ==
    ret.call = "new" =>
        IF ret.a >= 1
        THEN /\ ret.status = Ok
             /\ len(st) = ret.a
             /\ Len(Leaves(st)) = ret.a
             /\ \A i \in 0 .. ret.a - 1 : get(st, i) = [status |-> Ok, value |-> id(m)]
        ELSE ret.status # Ok /\ st = Nil

\* new(0) has exhausted the stack
NewZeroSeen == ret.call = "new" /\ ret.a = 0 /\ ret.status = StackOverflow

\* C8: in every state every node's aggregate is op of its children's
\* aggregates and the reduction of its leaves in index order; the root's is
\* the reduction of the whole sequence, which fold(0, n) returns.
AggregatesCached ==
    st # Nil =>
        /\ WellAggregated(m, st)
        /\ Leaves(st) = sq
        /\ val(st) = Reduce(m, sq, 0, Length)
        /\ fold(m, st, 0, Length) = [status |-> Ok, value |-> val(st)]

\* a set below the root of a tree has changed the root's aggregate to
\* something other than the value written
AggregateRecomputed ==
    /\ ret.call = "set" /\ ret.status = Ok
    /\ st.kind = "Node" /\ ret.b # id(m) /\ val(st) # ret.b

\* C9: a fold with 0 <= start <= end <= n trips no assertion in any
\* recursive call and never reaches the leaf branch marked unreachable.
FoldNeverTrips ==
    (ret.call = "fold" /\ ret.a <= ret.b /\ ret.b <= len(st)) =>
        ret.status \notin {InvalidRange, IndexOut, Unreachable}

\* a fold that had to descend into the right child
FoldDescended ==
    /\ ret.call = "fold" /\ ret.status = Ok
    /\ ret.a >= 1 /\ ret.a < ret.b /\ ret.b <= len(st)

\* C10: for any predicate at all, max_end(start) with start <= n returns
\* an end in [start, n] and min_start(end) with end <= n returns a start in
\* [0, end], without a panic, and the tree stays the one that was built.
SearchStaysInRange ==
    /\ (ret.call = "max_end" /\ ret.a <= Length) =>
          ret.status = Ok /\ ret.a <= ret.value /\ ret.value <= Length
    /\ (ret.call = "min_start" /\ ret.a <= Length) =>
          ret.status = Ok /\ 0 <= ret.value /\ ret.value <= ret.a
    /\ st = from_slice(m, sq, 0).tree

\* a search has returned for a predicate that is false on the identity and
\* not monotone
LawlessPredSeen ==
    /\ ret.call \in {"max_end", "min_start"} /\ ret.status = Ok
    /\ id(m) \notin pred
    /\ ~MonotoneFrom(0) /\ ~MonotoneTo(Length)

====
